---- MODULE Spec2Model ----
(***************************************************************************)
(* Model of the tweet search pipeline of Social-Media-Analysis:            *)
(*   server/services/twitter_service.py  TwitterService.fetch_tweets       *)
(*   server/api/search_routes.py         POST /api/variable, GET /api/tweets*)
(*                                       save_tweets_with_sentiment,       *)
(*                                       calculate_language_stats          *)
(*                                                                         *)
(* Three specifications share the definitions below:                       *)
(*   SpecFetch  one call of fetch_tweets, one upstream request per step    *)
(*   Spec       the HTTP handlers, running concurrently, and their files   *)
(*   SpecLang   calculate_language_stats applied to bounded data frames    *)
(***************************************************************************)
EXTENDS Integers, Sequences, FiniteSets, TLC

VARIABLES
    fetch,          \* locals of the running (or most recently ended) fetch_tweets call
    now,            \* the wall clock, in seconds
    disk,           \* the files under data/ and server/data/
    handlers,       \* the server's worker threads and the locals of their handlers
    request,        \* the HTTP request received last
    http_response,  \* the HTTP response given last
    posts,          \* number of POST /api/variable requests received
    last_save,      \* arguments and result of the last completed save
    lang_df,        \* SpecLang: the data frame given to calculate_language_stats
    lang_result     \* SpecLang: what it returned

(***************************************************************************)
(* Python values                                                           *)
(***************************************************************************)
\* Python's None, as it appears where a string is expected.
None == "None"

\* Truth value of an optional string (`while continuation_token ...`).
Truthy(v) == v /= None /\ v /= ""

\* dict.get(key, default)
Get(d, key, default) == IF key \in DOMAIN d THEN d[key] ELSE default

\* The empty dict, default of tweet.get("user", {}).
EmptyDict == << >>

\* int(x) on the raw count values the upstream API sends: numeric strings
\* parse, any other string raises ValueError.  The default 0 of
\* tweet.get("favorite_count", 0) is written "0" (int(0) = int("0") = 0).
CanInt(v) == v \in {"0", "3"}

int(v) == CASE v = "0" -> 0 [] v = "3" -> 3

(***************************************************************************)
(* Upstream search API                                                     *)
(***************************************************************************)
\* Largest number of results in one upstream page.
MaxPageLen == 2

\* Raw results: the example record of the specification, a record that uses
\* the fallback key "text" and has no counts, a record whose count is not
\* numeric.
T1 == [tweet_id |-> "1", tweet_text |-> "hi", favorite_count |-> "3"]

T2 == [tweet_id |-> "2", text |-> "hola"]

TBad == [tweet_id |-> "1", tweet_text |-> "hi", favorite_count |-> "many"]

RawTweets == {T1, T2, TBad}

Pages == UNION { [1..n -> RawTweets] : n \in 0..MaxPageLen }

\* Bodies response.json() can return: `continuation_token` present or absent.
Jsons ==
    { [results |-> p] : p \in Pages }
    \cup { [results |-> p, continuation_token |-> "tok"] : p \in Pages }

\* requests.get raised (no response object).
ConnectionError == [raised |-> TRUE, status_code |-> 0, json |-> [results |-> << >>]]

\* What one requests.get can produce.
Responses ==
    { [raised |-> FALSE, status_code |-> s, json |-> j] : s \in {200, 500}, j \in Jsons }
    \cup { ConnectionError }

(***************************************************************************)
(* TwitterService                                                          *)
(***************************************************************************)
\* max_pages = 5
max_pages == 5

\* _process_tweet_data
CanProcess(tweet) ==
    /\ CanInt(Get(tweet, "favorite_count", "0"))
    /\ CanInt(Get(tweet, "retweet_count", "0"))
    /\ CanInt(Get(tweet, "reply_count", "0"))
    /\ CanInt(Get(tweet, "quote_count", "0"))

process_tweet_data(tweet) ==
    [ id             |-> Get(tweet, "tweet_id", None),
      text           |-> Get(tweet, "tweet_text", Get(tweet, "text", "")),
      timestamp      |-> Get(tweet, "creation_date", None),
      favorite_count |-> int(Get(tweet, "favorite_count", "0")),
      retweet_count  |-> int(Get(tweet, "retweet_count", "0")),
      reply_count    |-> int(Get(tweet, "reply_count", "0")),
      quote_count    |-> int(Get(tweet, "quote_count", "0")),
      views          |-> Get(tweet, "views", 0),
      user_followers |-> Get(Get(tweet, "user", EmptyDict), "follower_count", 0),
      user_name      |-> Get(Get(tweet, "user", EmptyDict), "name", ""),
      user_username  |-> Get(Get(tweet, "user", EmptyDict), "username", "") ]

\* [self._process_tweet_data(tweet) for tweet in tweets]
ProcessAll(tweets) == [i \in DOMAIN tweets |-> process_tweet_data(tweets[i])]

CanProcessAll(tweets) == \A i \in DOMAIN tweets : CanProcess(tweets[i])

\* The locals of fetch_tweets before its first statement.  `response` is what
\* the most recent requests.get produced (a raise included), `requests`
\* counts the calls of requests.get, `error` is the exception the call ended
\* with.
NoResponse == [raised |-> FALSE, status_code |-> 0, json |-> [results |-> << >>]]

NewFetch ==
    [ pc                 |-> "start",
      all_tweets_data    |-> << >>,
      continuation_token |-> None,
      page               |-> 0,
      response           |-> NoResponse,
      requests           |-> 0,
      error              |-> "" ]

\* raise: the call ends with exception e
Raise(st, e) == [st EXCEPT !.pc = "raised", !.error = e]

\* break out of the while loop
Break(st) == [st EXCEPT !.pc = "after_loop"]

\* Variant of InitialRequest without the status check of line 34.
InitialRequestUnchecked(st, resp) ==
    LET got == [st EXCEPT !.requests = @ + 1, !.response = resp]
        initial_tweets == Get(resp.json, "results", << >>)
    IN  IF resp.raised THEN Raise(got, "RequestException")
        ELSE IF ~CanProcessAll(initial_tweets) THEN Raise(got, "ValueError")
        ELSE [got EXCEPT
                !.pc = "loop",
                !.all_tweets_data = @ \o ProcessAll(initial_tweets),
                !.continuation_token = Get(resp.json, "continuation_token", None),
                !.page = 1]

\* Lines 27-49 with the outer handler of lines 100-102: the initial request.
InitialRequest(st, resp) ==
    LET got == [st EXCEPT !.requests = @ + 1, !.response = resp]
        initial_tweets == Get(resp.json, "results", << >>)
    IN  IF resp.raised THEN Raise(got, "RequestException")
        ELSE IF resp.status_code /= 200 THEN Raise(got, "API request failed")
        ELSE IF ~CanProcessAll(initial_tweets) THEN Raise(got, "ValueError")
        ELSE [got EXCEPT
                !.pc = "loop",
                !.all_tweets_data = @ \o ProcessAll(initial_tweets),
                !.continuation_token = Get(resp.json, "continuation_token", None),
                !.page = 1]

\* Variant of LoopCond with the comparison page <= max_pages.
LoopCondInclusive(st) == Truthy(st.continuation_token) /\ st.page <= max_pages

\* Line 52: while continuation_token and page < max_pages
LoopCond(st) == Truthy(st.continuation_token) /\ st.page < max_pages

\* Variant of ContinuationRequest in which a failed continuation request
\* raises, as the initial request does.
ContinuationRequestRaising(st, resp) ==
    LET got == [st EXCEPT !.requests = @ + 1, !.response = resp]
        new_tweets == Get(resp.json, "results", << >>)
    IN  IF resp.raised THEN Raise(got, "RequestException")
        ELSE IF resp.status_code /= 200 THEN Raise(got, "API request failed")
        ELSE IF new_tweets = << >> THEN Break(got)
        ELSE IF ~CanProcessAll(new_tweets) THEN Raise(got, "ValueError")
        ELSE [got EXCEPT
                !.all_tweets_data = @ \o ProcessAll(new_tweets),
                !.continuation_token = Get(resp.json, "continuation_token", None),
                !.page = @ + 1]

\* Variant of ContinuationRequest without the break of lines 84-86 on a page
\* with no results.
ContinuationRequestPastEmpty(st, resp) ==
    LET got == [st EXCEPT !.requests = @ + 1, !.response = resp]
        new_tweets == Get(resp.json, "results", << >>)
    IN  IF resp.raised THEN Break(got)
        ELSE IF resp.status_code /= 200 THEN Break(got)
        ELSE IF ~CanProcessAll(new_tweets) THEN Break(got)
        ELSE [got EXCEPT
                !.all_tweets_data = @ \o ProcessAll(new_tweets),
                !.continuation_token = Get(resp.json, "continuation_token", None),
                !.page = @ + 1]

\* Lines 53-98: one iteration of the while loop, one continuation request.
ContinuationRequest(st, resp) ==
    LET got == [st EXCEPT !.requests = @ + 1, !.response = resp]
        new_tweets == Get(resp.json, "results", << >>)
    IN  IF resp.raised THEN Break(got)
        ELSE IF resp.status_code /= 200 THEN Break(got)
        ELSE IF new_tweets = << >> THEN Break(got)
        ELSE IF ~CanProcessAll(new_tweets) THEN Break(got)
        ELSE [got EXCEPT
                !.all_tweets_data = @ \o ProcessAll(new_tweets),
                !.continuation_token = Get(resp.json, "continuation_token", None),
                !.page = @ + 1]

\* The loop is left: by break, or because its condition is false.
LoopLeft(st) == st.pc = "after_loop" \/ (st.pc = "loop" /\ ~LoopCond(st))

\* Variant of FetchReturn without the empty check of lines 104-105.
FetchReturnUnchecked(st) == [st EXCEPT !.pc = "returned"]

\* Lines 104-109: the empty check and the return of the DataFrame.
FetchReturn(st) ==
    IF st.all_tweets_data = << >>
    THEN Raise(st, "No tweets found in the response")
    ELSE [st EXCEPT !.pc = "returned"]

\* The while loop against the upstream responses upstream[2], upstream[3], ...
RECURSIVE PaginationLoop(_, _)
PaginationLoop(st, upstream) ==
    IF st.pc = "loop" /\ LoopCond(st)
    THEN PaginationLoop(ContinuationRequest(st, upstream[st.requests + 1]), upstream)
    ELSE st

\* fetch_tweets as a whole, against the responses the upstream API gives to
\* its successive requests.
fetch_tweets(upstream) ==
    LET looped == PaginationLoop(InitialRequest(NewFetch, upstream[1]), upstream)
    IN  IF LoopLeft(looped) THEN FetchReturn(looped) ELSE looped

\* The DataFrame a call returned: one row per collected record.
DataFrame(st) == st.all_tweets_data

\* Line 54: the seconds a call has slept, one before every continuation
\* request.
Slept(st) == IF st.requests = 0 THEN 0 ELSE st.requests - 1

(***************************************************************************)
(* DataCleaner, SentimentAnalyzer, EngagementAnalyzer (services/*, opaque) *)
(***************************************************************************)
\* The columns the cleaner and the analyzer add to the fetched table.
AnnotationColumns == {"cleaned_text", "original_lang", "sentiment", "sentiment_score"}

\* Language detection, a function of the text.
DetectLang(text) == IF text = "hola" THEN "es" ELSE "en"

\* One row with the annotation columns `cols` added.
AnnotateRow(row, cols) ==
    LET all == [ cleaned_text    |-> row.text,
                 original_lang   |-> DetectLang(row.text),
                 sentiment       |-> "neutral",
                 sentiment_score |-> 0 ]
    IN  row @@ [c \in cols |-> all[c]]

\* clean_dataframe followed by analyze: every row annotated, none dropped.
Annotate(df, cols) == [i \in DOMAIN df |-> AnnotateRow(df[i], cols)]

\* What cleaning and analysis can do: raise, or add the annotation columns.
Annotations == {"raise", "all"}

AnnotationCols(a) == IF a = "all" THEN AnnotationColumns ELSE {}

(***************************************************************************)
(* search_routes.py                                                        *)
(***************************************************************************)
\* df.columns of a table built from a list of dicts
Columns(df) == IF df = << >> THEN {} ELSE DOMAIN df[1]

\* df[col].value_counts().to_dict()
value_counts(df, col) ==
    [v \in {df[i][col] : i \in DOMAIN df} |->
        Cardinality({i \in DOMAIN df : df[i][col] = v})]

\* Variant of round_percentage that truncates to the tenth below.
round_percentage_truncating(count, total) == (count * 1000) \div total

RECURSIVE GCD(_, _)
GCD(a, b) == IF b = 0 THEN a ELSE GCD(b, a % b)

RECURSIVE Pow2(_)
Pow2(n) == IF n = 0 THEN 1 ELSE 2 * Pow2(n - 1)

\* 2^n modulo m
RECURSIVE Pow2Mod(_, _)
Pow2Mod(n, m) == IF n = 0 THEN 1 % m ELSE (2 * Pow2Mod(n - 1, m)) % m

\* Rounding an integer with low bits `low` (of `bits` bits below the kept
\* ones, `odd` telling whether the lowest kept bit is set) to the nearest
\* multiple of 2^bits, a tie to even: the amount added.
RoundToEven(low, bits, odd) ==
    LET half == Pow2(bits - 1)
    IN  IF low < half THEN 0 - low
        ELSE IF low > half THEN Pow2(bits) - low
        ELSE IF odd THEN Pow2(bits) - low ELSE 0 - low

\* (count / total) * 100 in IEEE-754 double arithmetic, for a quotient whose
\* exact percentage x = 100 * count / total lies halfway between two tenths:
\* the sign of (the double the code computes) - x.  With count / total =
\* a / b in lowest terms, b is 16 * f with f a power of 5.
\*   count / total is the 53-bit significand M = round(a * 2^E / b):
\*       M * f = a * 2^(E - 4) + d1
\*   the product with 100 rounds 25 * M to 53 bits, dropping s bits:
\*       25 * M + d2
\*   and the double is above x exactly when 25 * d1 + f * d2 > 0.
FloatPercentageSide(count, total) ==
    LET g   == GCD(count, total)
        a   == count \div g
        b   == total \div g
        f   == b \div 16
        j   == CHOOSE k \in 0..11 : a * Pow2(k) >= b /\ (k = 0 \/ a * Pow2(k - 1) < b)
        E   == 52 + j
        rho == (a * Pow2Mod(E - 4, f)) % f
        d1  == IF 2 * rho < f THEN 0 - rho ELSE f - rho
        inv == CHOOSE x \in 0..63 : (x * f) % 64 = 1
        M64 == (d1 * inv) % 64
        s   == IF 25 * a * Pow2(j) > f * 512 \/ (25 * a * Pow2(j) = f * 512 /\ d1 >= 0)
               THEN 5 ELSE 4
        d2  == RoundToEven((25 * M64) % Pow2(s), s, ((25 * M64) \div Pow2(s)) % 2 = 1)
    IN  25 * d1 + f * d2

\* round((count / total) * 100, 1), in tenths of a percent (333 is 33.3).
\* round() gives the tenth nearest to the double (count / total) * 100, and
\* the even tenth when the double is exactly halfway.  The double is within
\* 1e-13 of the exact percentage, so it is on the same side of a halfway
\* point as the exact percentage unless that is itself halfway; then the
\* double's own rounding error decides (23/80: 28.749999999999996, 28.7).
round_percentage(count, total) ==
    LET q == (count * 1000) \div total
        r == (count * 1000) % total
    IN  IF 2 * r < total THEN q
        ELSE IF 2 * r > total THEN q + 1
        ELSE LET side == FloatPercentageSide(count, total)
             IN  IF side > 0 THEN q + 1
                 ELSE IF side < 0 THEN q
                 ELSE IF q % 2 = 0 THEN q ELSE q + 1

\* 'Hindi' if lang == 'hi' else 'English' if lang == 'en' else lang
lang_name(lang) == IF lang = "hi" THEN "Hindi" ELSE IF lang = "en" THEN "English" ELSE lang

\* calculate_language_stats; the list `languages` has one entry per code and
\* is kept as the set of its entries.
calculate_language_stats(df) ==
    IF "original_lang" \notin Columns(df)
    THEN [languages |-> {}]
    ELSE LET lang_counts == value_counts(df, "original_lang")
             total == Len(df)
         IN  [languages |->
                { [ language   |-> lang_name(lang),
                    code       |-> lang,
                    count      |-> lang_counts[lang],
                    percentage |-> round_percentage(lang_counts[lang], total) ]
                  : lang \in DOMAIN lang_counts }]

\* desired_columns
desired_columns ==
    {"id", "text", "cleaned_text", "favorite_count", "retweet_count", "reply_count",
     "sentiment", "sentiment_score", "original_lang"}

\* Lines 32-46: df[columns_to_save].to_dict(orient='records')
tweet_records(df) ==
    LET columns_to_save == desired_columns \cap Columns(df)
    IN  [i \in DOMAIN df |-> [col \in columns_to_save |-> df[i][col]]]

\* Lines 48-64: data_to_save
data_to_save(df, search_query, timestamp) ==
    [ metadata |->
        [ search_query   |-> search_query,
          timestamp      |-> timestamp,
          total_tweets   |-> Len(tweet_records(df)),
          language_stats |-> calculate_language_stats(df).languages ],
      tweets |-> tweet_records(df) ]

\* [:30]
SanitizedLen == 30

\* search_query.replace(" ", "_").replace("/", "_").replace("\\", "_")[:30]
\* on a string given as the sequence of its characters.
sanitized_query(search_query) ==
    LET replaced == [i \in DOMAIN search_query |->
                        IF search_query[i] \in {" ", "/", "\\"} THEN "_" ELSE search_query[i]]
        n == IF Len(search_query) < SanitizedLen THEN Len(search_query) ELSE SanitizedLen
    IN  SubSeq(replaced, 1, n)

\* f"data/tweets_{sanitized_query}_{timestamp}.json": the name of a file
\* directly under data/, given by the two values it is formatted from (the
\* timestamp has a fixed width, so the formatting is one-to-one).
Filename(search_query, timestamp) == <<sanitized_query(search_query), timestamp>>

\* A file that does not exist, and a file holding the bytes c.
NoFile == << >>

File(c) == <<c>>

\* The bytes of a file are a sequence of pieces, each the bytes from..to-1 of
\* the JSON text of one envelope; a file of 0 bytes has no piece.
NoBytes == << >>

RECURSIVE Digits(_)
Digits(n) == IF n < 10 THEN 1 ELSE 1 + Digits(n \div 10)

RECURSIVE SetSum(_, _)
SetSum(f, S) ==
    IF S = {} THEN 0
    ELSE LET x == CHOOSE y \in S : TRUE IN f[x] + SetSum(f, S \ {x})

\* Length of a JSON object or array written with indent=2 whose closing
\* bracket is at nesting depth `depth`: n items of lengths `sum` in all, each
\* on a line of its own, separated by commas.
Block(depth, n, sum) ==
    IF n = 0 THEN 2
    ELSE 1 + n * (1 + 2 * (depth + 1)) + sum + (n - 1) + 1 + 2 * depth + 1

\* "key": value
Member(key, value_len) == Len(key) + 2 + 2 + value_len

\* A string given as the sequence of its characters, quoted and escaped.
QuotedLen(s) == Len(s) + Cardinality({i \in DOMAIN s : s[i] \in {"\\", "\""}}) + 2

\* One value of a tweet record: a number, null, or a string.
FieldLen(key, value) ==
    IF key \in {"favorite_count", "retweet_count", "reply_count", "sentiment_score"}
    THEN Digits(value)
    ELSE IF value = None THEN 4 ELSE Len(value) + 2

TweetLen(tweet) ==
    Block(2, Cardinality(DOMAIN tweet),
          SetSum([k \in DOMAIN tweet |-> Member(k, FieldLen(k, tweet[k]))], DOMAIN tweet))

LanguageLen(e) ==
    Block(3, 4, Member("language", Len(e.language) + 2) + Member("code", Len(e.code) + 2)
                + Member("count", Digits(e.count))
                + Member("percentage", Digits(e.percentage \div 10) + 2))

\* len of the text of json.dump(data_to_save, f, ensure_ascii=False,
\* indent=2); the timestamp is the 19 characters of %Y-%m-%d_%H-%M-%S.
json_len(data) ==
    LET stats    == data.metadata.language_stats
        metadata == Block(1, 4,
                      Member("search_query", QuotedLen(data.metadata.search_query))
                      + Member("timestamp", 19 + 2)
                      + Member("total_tweets", Digits(data.metadata.total_tweets))
                      + Member("language_stats",
                               Block(2, Cardinality(stats),
                                     SetSum([e \in stats |-> LanguageLen(e)], stats))))
        tweets   == Block(1, Len(data.tweets),
                      SetSum([i \in DOMAIN data.tweets |-> TweetLen(data.tweets[i])],
                             DOMAIN data.tweets))
    IN  Block(0, 2, Member("metadata", metadata) + Member("tweets", tweets))

\* The text json.dump writes for `data`, whole.
json_dump(data) == << [of |-> data, from |-> 0, to |-> json_len(data)] >>

\* json.load succeeds on the bytes of exactly one whole text.
IsJson(bytes) ==
    /\ Len(bytes) = 1
    /\ bytes[1].from = 0
    /\ bytes[1].to = json_len(bytes[1].of)

json_load(bytes) == bytes[1].of

\* The bytes from offset n on.
RECURSIVE BytesFrom(_, _)
BytesFrom(bytes, n) ==
    IF bytes = NoBytes \/ n = 0 THEN bytes
    ELSE LET piece == bytes[1]
             size  == piece.to - piece.from
         IN  IF n >= size THEN BytesFrom(Tail(bytes), n - size)
             ELSE << [piece EXCEPT !.from = @ + n] >> \o Tail(bytes)

\* Variant of open_w that opens without truncating (mode 'r+').
open_without_truncating(file) == IF file = NoFile THEN File(NoBytes) ELSE file

\* open(name, 'w'): the file exists and has 0 bytes; the handle is at
\* offset 0.
open_w(file) == File(NoBytes)

\* Leaving the with block of a handle opened with 'w': the text json.dump
\* left in the buffer is written at offset 0, over what the file holds by
\* then; bytes of the file beyond the text stay.  (A text is shorter than
\* the 8192 bytes of the buffer, so it reaches the file in one write.)
write_at_close(file, text) == File(text \o BytesFrom(file[1], text[1].to))

\* The disk after import: the directories exist and hold no file.
\*   data_tweets                 data/tweets_<query>_<timestamp>.json, by name
\*   data_latest_tweets          data/latest_tweets.json
\*   server_data_latest_tweets   server/data/latest_tweets.json
EmptyDisk ==
    [ data_tweets               |-> << >>,
      data_latest_tweets        |-> NoFile,
      server_data_latest_tweets |-> NoFile ]

\* The file data/tweets_... of name `filename`.
DataTweets(d, filename) ==
    IF filename \in DOMAIN d.data_tweets THEN d.data_tweets[filename] ELSE NoFile

\* The files under data/tweets_... with the one of name `filename` set.
WriteDataTweets(files, filename, content) ==
    [f \in DOMAIN files \cup {filename} |-> IF f = filename THEN content ELSE files[f]]

\* Line 73: open(filename, 'w', encoding='utf-8')
open_timestamped_file(d, filename) ==
    [d EXCEPT !.data_tweets = WriteDataTweets(@, filename, open_w(DataTweets(d, filename)))]

\* Line 74 and the end of its with block
write_timestamped_file(d, filename, data) ==
    [d EXCEPT !.data_tweets =
        WriteDataTweets(@, filename, write_at_close(DataTweets(d, filename), json_dump(data)))]

\* Line 77: open("data/latest_tweets.json", 'w', encoding='utf-8')
open_latest_file(d) == [d EXCEPT !.data_latest_tweets = open_w(@)]

\* Line 78 and the end of its with block
write_latest_file(d, data) ==
    [d EXCEPT !.data_latest_tweets = write_at_close(@, json_dump(data))]

\* A search query is the sequence of its characters; "" is the empty one.
EmptyString == << >>

\* request.json.get("searchQuery", "")
SearchQuery(body) == Get(body, "searchQuery", EmptyString)

\* Variant of NoQuery that lets every query through.
NoQueryUnchecked(user_input) == FALSE

\* Line 130: if not user_input
NoQuery(user_input) == user_input = EmptyString

\* Line 131
Rejected ==
    [ route  |-> "POST /api/variable",
      status |-> 400,
      body   |-> [message |-> "No search query provided."] ]

\* Lines 165-171
Failed(e) ==
    [ route  |-> "POST /api/variable",
      status |-> 500,
      body   |-> [error |-> e, message |-> "Failed to fetch or process Twitter data"] ]

\* Lines 152-163
Succeeded(df, user_input, filename) ==
    [ route  |-> "POST /api/variable",
      status |-> 200,
      body   |-> [ sentiment_analysis |-> "analysis",
                   engagement_metrics |-> "metrics",
                   tweets_data |-> [ filename     |-> filename,
                                     count        |-> Len(df),
                                     search_query |-> user_input ] ] ]

\* GET /api/tweets (lines 174-188)
get_latest_tweets(d) ==
    IF d.server_data_latest_tweets = NoFile
    THEN [ route |-> "GET /api/tweets", status |-> 404,
           body |-> [message |-> "No tweet data available yet"] ]
    ELSE IF ~IsJson(d.server_data_latest_tweets[1])
    THEN [ route |-> "GET /api/tweets", status |-> 500,
           body |-> [error |-> "JSONDecodeError", message |-> "Failed to retrieve tweet data"] ]
    ELSE [ route |-> "GET /api/tweets", status |-> 200,
           body |-> json_load(d.server_data_latest_tweets[1]) ]

\* No answer yet.
NoAnswer == [route |-> "none", status |-> 0, body |-> [message |-> ""]]

\* A worker thread of the server that handles no request, and the locals of
\* one that handles a request:
\*   pc          "fetch_tweets"  in line 134, the upstream requests
\*               "analyze"       in lines 137-146
\*               "open_file"     before the open of line 73
\*               "write_file"    in the with block of lines 73-74
\*               "open_latest"   before the open of line 77
\*               "write_latest"  in the with block of lines 77-78
\*               "answer"        at a return of the handler, the answer not
\*                               yet given
\*   to_sleep    the seconds of time.sleep(1) its fetch_tweets call has yet
\*               to spend (line 54)
\*   response    the answer the handler returns
\*   overlapped  another save was in progress during this handler's save
Idle ==
    [ pc |-> "idle", user_input |-> EmptyString, upstream |-> << >>, to_sleep |-> 0,
      df |-> << >>, timestamp |-> 0, response |-> NoAnswer, overlapped |-> FALSE ]

\* The handler returns `response`.
Return(response) == [Idle EXCEPT !.pc = "answer", !.response = response]

\* The handler is inside save_tweets_with_sentiment.
Saving(handler) == handler.pc \in {"open_file", "write_file", "open_latest", "write_latest"}

vars ==
    <<fetch, now, disk, handlers, request, http_response, posts, last_save,
      lang_df, lang_result>>

(***************************************************************************)
(* The state after import                                                  *)
(***************************************************************************)
\* Worker threads: requests are handled concurrently, one thread each.
Handlers == {"thread-1", "thread-2"}

NoBody == [unrelated |-> << >>]

ServerStarted ==
    /\ now = 0
    /\ disk = EmptyDisk
    /\ handlers = [h \in Handlers |-> Idle]
    /\ request = [route |-> "none", body |-> NoBody]
    /\ http_response = NoAnswer
    /\ posts = 0
    /\ last_save = << >>

serverVars == <<now, disk, handlers, request, http_response, posts, last_save>>

langVars == <<lang_df, lang_result>>

(***************************************************************************)
(* SpecFetch: one call of fetch_tweets, one upstream request per step      *)
(***************************************************************************)
InitFetch == fetch = NewFetch /\ ServerStarted /\ lang_df = << >> /\ lang_result = << >>

FetchInitial ==
    /\ fetch.pc = "start"
    /\ \E resp \in Responses : fetch' = InitialRequest(fetch, resp)
    /\ UNCHANGED <<serverVars, langVars>>

FetchContinuation ==
    /\ fetch.pc = "loop" /\ LoopCond(fetch)
    /\ \E resp \in Responses : fetch' = ContinuationRequest(fetch, resp)
    /\ UNCHANGED <<serverVars, langVars>>

FetchFinish ==
    /\ LoopLeft(fetch)
    /\ fetch' = FetchReturn(fetch)
    /\ UNCHANGED <<serverVars, langVars>>

NextFetch == FetchInitial \/ FetchContinuation \/ FetchFinish

SpecFetch == InitFetch /\ [][NextFetch]_vars

(***************************************************************************)
(* Spec: the HTTP handlers, one step per blocking call                     *)
(***************************************************************************)
\* Number of POST /api/variable requests in a run, and the last second of
\* the wall clock.
MaxPosts == 2

MaxClock == 1

\* The empty query, and two queries with the same sanitized name.
Queries == { EmptyString, <<"a", " ", "b">>, <<"a", "/", "b">> }

\* Request bodies: with a searchQuery, and without the key.
Bodies == { [searchQuery |-> q] : q \in Queries } \cup { NoBody }

\* A 200 response with results and, if tok is not None, a continuation token.
Ok(results, tok) ==
    [ raised |-> FALSE, status_code |-> 200,
      json |-> IF tok = None THEN [results |-> results]
               ELSE [results |-> results, continuation_token |-> tok] ]

\* A response with another status.
Failing(status, results) ==
    [raised |-> FALSE, status_code |-> status, json |-> [results |-> results]]

\* The upstream API's answers to up to max_pages requests; requests beyond
\* the given answers fail to connect.
Upstream(answers) ==
    [i \in 1..max_pages |-> IF i <= Len(answers) THEN answers[i] ELSE ConnectionError]

\* The upstream behaviours a POST runs against: the initial request fails;
\* no result; one page; two pages that repeat an id.
Upstreams ==
    { Upstream(<< Failing(500, <<T1>>) >>),
      Upstream(<< Ok(<< >>, None) >>),
      Upstream(<< Ok(<<T1>>, None) >>),
      Upstream(<< Ok(<<T1, T2>>, "tok"), Ok(<<T1>>, None) >>) }

Init == fetch = NewFetch /\ ServerStarted /\ lang_df = << >> /\ lang_result = << >>

\* Some thread is free, and the one that takes the next request.
ThreadFree == \E k \in Handlers : handlers[k].pc = "idle"

FreeThread == CHOOSE k \in Handlers : handlers[k].pc = "idle"

\* Lines 128-134: a POST /api/variable arrives at a free thread, which
\* returns 400 or calls fetch_tweets.
PostVariable ==
    /\ posts < MaxPosts
    /\ ThreadFree
    /\ \E body \in Bodies :
         /\ request' = [route |-> "POST /api/variable", body |-> body]
         /\ IF NoQuery(SearchQuery(body))
            THEN handlers' = [handlers EXCEPT ![FreeThread] = Return(Rejected)]
            ELSE \E upstream \in Upstreams :
                    handlers' = [handlers EXCEPT ![FreeThread] =
                        [Idle EXCEPT !.pc = "fetch_tweets",
                                     !.user_input = SearchQuery(body),
                                     !.upstream = upstream,
                                     !.to_sleep = Slept(fetch_tweets(upstream))]]
    /\ posts' = posts + 1
    /\ UNCHANGED <<fetch, now, disk, http_response, last_save, langVars>>

\* Line 134: fetch_tweets ends, after the seconds it slept: it returns the
\* table, or raises and the handler returns 500.
FetchTweets ==
    \E h \in Handlers :
        LET fetched == fetch_tweets(handlers[h].upstream)
        IN  /\ handlers[h].pc = "fetch_tweets"
            /\ handlers[h].to_sleep = 0
            /\ fetch' = fetched
            /\ handlers' = [handlers EXCEPT ![h] =
                    IF fetched.pc = "raised"
                    THEN Return(Failed(fetched.error))
                    ELSE [@ EXCEPT !.pc = "analyze", !.df = DataFrame(fetched)]]
            /\ UNCHANGED <<now, disk, request, http_response, posts, last_save, langVars>>

\* Lines 137-149 and 29-64: the table is cleaned and analysed, and
\* save_tweets_with_sentiment reads the clock and builds data_to_save; an
\* exception makes the handler return 500.
Analyze ==
    \E h \in Handlers, annotation \in Annotations :
        LET df     == Annotate(handlers[h].df, AnnotationCols(annotation))
            others == \E k \in Handlers \ {h} : Saving(handlers[k])
        IN  /\ handlers[h].pc = "analyze"
            /\ handlers' =
                  IF annotation = "raise"
                  THEN [handlers EXCEPT ![h] = Return(Failed("PipelineError"))]
                  ELSE [k \in Handlers |->
                           IF k = h
                           THEN [handlers[h] EXCEPT !.pc = "open_file", !.df = df,
                                                    !.timestamp = now, !.overlapped = others]
                           ELSE IF Saving(handlers[k])
                                THEN [handlers[k] EXCEPT !.overlapped = TRUE]
                                ELSE handlers[k]]
            /\ UNCHANGED <<fetch, now, disk, request, http_response, posts, last_save,
                           langVars>>

\* The envelope and the filename of a handler that is saving.
HandlerData(hd) == data_to_save(hd.df, hd.user_input, hd.timestamp)

HandlerFilename(hd) == Filename(hd.user_input, hd.timestamp)

\* Line 73
OpenTimestampedFile ==
    \E h \in Handlers :
        /\ handlers[h].pc = "open_file"
        /\ disk' = open_timestamped_file(disk, HandlerFilename(handlers[h]))
        /\ handlers' = [handlers EXCEPT ![h].pc = "write_file"]
        /\ UNCHANGED <<fetch, now, request, http_response, posts, last_save, langVars>>

\* Line 74
WriteTimestampedFile ==
    \E h \in Handlers :
        /\ handlers[h].pc = "write_file"
        /\ disk' = write_timestamped_file(disk, HandlerFilename(handlers[h]),
                                          HandlerData(handlers[h]))
        /\ handlers' = [handlers EXCEPT ![h].pc = "open_latest"]
        /\ UNCHANGED <<fetch, now, request, http_response, posts, last_save, langVars>>

\* Line 77
OpenLatestFile ==
    \E h \in Handlers :
        /\ handlers[h].pc = "open_latest"
        /\ disk' = open_latest_file(disk)
        /\ handlers' = [handlers EXCEPT ![h].pc = "write_latest"]
        /\ UNCHANGED <<fetch, now, request, http_response, posts, last_save, langVars>>

\* Lines 78-80 and 152-164: the latest file is written, the save returns
\* and the handler returns 200.
WriteLatestFile ==
    \E h \in Handlers :
        LET hd == handlers[h]
        IN  /\ hd.pc = "write_latest"
            /\ disk' = write_latest_file(disk, HandlerData(hd))
            /\ last_save' = << [ df |-> hd.df, search_query |-> hd.user_input,
                                 timestamp |-> hd.timestamp,
                                 filename |-> HandlerFilename(hd),
                                 overlapped |-> hd.overlapped ] >>
            /\ handlers' = [handlers EXCEPT ![h] =
                    Return(Succeeded(hd.df, hd.user_input, HandlerFilename(hd)))]
            /\ UNCHANGED <<fetch, now, request, http_response, posts, langVars>>

\* Lines 174-188: a GET /api/tweets arrives at a free thread, which reads
\* the file and returns.
GetLatestTweets ==
    /\ ThreadFree
    /\ request' = [route |-> "GET /api/tweets", body |-> NoBody]
    /\ handlers' = [handlers EXCEPT ![FreeThread] = Return(get_latest_tweets(disk))]
    /\ UNCHANGED <<fetch, now, disk, http_response, posts, last_save, langVars>>

\* The answer a handler returned is given to the client.
Answer ==
    \E h \in Handlers :
        /\ handlers[h].pc = "answer"
        /\ http_response' = handlers[h].response
        /\ handlers' = [handlers EXCEPT ![h] = Idle]
        /\ UNCHANGED <<fetch, now, disk, request, posts, last_save, langVars>>

\* The wall clock passes to the next second, and with it one second of
\* every sleep in progress.
Tick ==
    /\ now < MaxClock
    /\ now' = now + 1
    /\ handlers' = [h \in Handlers |->
                      [handlers[h] EXCEPT !.to_sleep = IF @ = 0 THEN 0 ELSE @ - 1]]
    /\ UNCHANGED <<fetch, disk, request, http_response, posts, last_save, langVars>>

Next ==
    \/ PostVariable
    \/ FetchTweets
    \/ Analyze
    \/ OpenTimestampedFile
    \/ WriteTimestampedFile
    \/ OpenLatestFile
    \/ WriteLatestFile
    \/ GetLatestTweets
    \/ Answer
    \/ Tick

Spec == Init /\ [][Next]_vars

(***************************************************************************)
(* SpecLang: calculate_language_stats on bounded tables                    *)
(***************************************************************************)
\* Largest number of rows of a table.
MaxTotal == 6

LangCodes == <<"en", "hi", "es", "fr", "de", "ja">>

\* value_counts does not depend on the order of the rows: the tables are
\* taken with their rows grouped by language.
Grouped(n) ==
    { s \in [1..n -> 1..Len(LangCodes)] : \A i \in 1..(n - 1) : s[i] <= s[i + 1] }

\* Row counts at which a percentage can lie halfway between two tenths:
\* with 16 rows the double is that percentage, with 80 rows it need not be.
TieTotals == {16, 80}

\* Tables of two languages with a row count in TieTotals.
TieFrames ==
    UNION { { [i \in 1..n |-> [original_lang |-> IF i <= c THEN "en" ELSE "hi"]]
              : c \in 1..(n - 1) } : n \in TieTotals }

\* Tables with an original_lang column, and one without it.
LangFrames ==
    UNION { { [i \in 1..n |-> [original_lang |-> LangCodes[s[i]]]] : s \in Grouped(n) }
            : n \in 0..MaxTotal }
    \cup TieFrames
    \cup { << [id |-> "1"] >> }

InitLang ==
    /\ fetch = NewFetch /\ ServerStarted
    /\ lang_df \in LangFrames
    /\ lang_result = << >>

CalculateLanguageStats ==
    /\ lang_result = << >>
    /\ lang_result' = << calculate_language_stats(lang_df) >>
    /\ UNCHANGED <<fetch, serverVars, lang_df>>

NextLang == CalculateLanguageStats

SpecLang == InitLang /\ [][NextLang]_vars

(***************************************************************************)
(* Properties of fetch_tweets (SpecFetch)                                  *)
(***************************************************************************)
\* The call has ended.
FetchEnded == fetch.pc \in {"returned", "raised"}

\* The results of the most recent upstream response.
LastResults == Get(fetch.response.json, "results", << >>)

\* The most recent upstream request failed: requests.get raised, the status
\* was not 200, or a result could not be processed.
LastRequestFailed ==
    \/ fetch.response.raised
    \/ fetch.response.status_code /= 200
    \/ ~CanProcessAll(LastResults)

\* The most recent upstream response carried a continuation token.
LastHadToken ==
    /\ ~fetch.response.raised
    /\ fetch.response.status_code = 200
    /\ "continuation_token" \in DOMAIN fetch.response.json

\* C2: the records fetch_tweets returns are deduplicated by id: no two of
\* them have the same id.
C2_ReturnedIdsUnique ==
    fetch.pc = "returned" =>
        \A i, j \in DOMAIN fetch.all_tweets_data :
            i /= j => fetch.all_tweets_data[i].id /= fetch.all_tweets_data[j].id

\* C3 as stated: whenever a continuation request fails, fetch_tweets ends by
\* returning, whatever the earlier pages held.
C3_FailedContinuationAlwaysReturns ==
    (FetchEnded /\ fetch.requests >= 2 /\ LastRequestFailed) => fetch.pc = "returned"

\* C3 as amended: a continuation request that fails breaks the loop and
\* leaves the collected records as they were; the call then issues no
\* further request and returns exactly those records if there is at least
\* one, and raises the empty-result error if the earlier pages held none.
C3_FailedContinuationKeepsRecords ==
    [][ /\ (fetch.requests >= 1 /\ fetch'.requests = fetch.requests + 1 /\ LastRequestFailed')
            => (fetch'.pc = "after_loop" /\ fetch'.all_tweets_data = fetch.all_tweets_data)
        /\ (fetch.pc = "after_loop" /\ LastRequestFailed)
            => /\ fetch'.requests = fetch.requests
               /\ fetch'.all_tweets_data = fetch.all_tweets_data
               /\ fetch.all_tweets_data /= << >> => fetch'.pc = "returned"
               /\ fetch.all_tweets_data = << >>
                    => (fetch'.pc = "raised" /\ fetch'.error = "No tweets found in the response")
      ]_vars

\* A call that returned the records of two pages after its third request
\* failed.
C3_Witness ==
    /\ fetch.pc = "returned"
    /\ fetch.requests = 3 /\ fetch.page = 2
    /\ LastRequestFailed
    /\ Len(fetch.all_tweets_data) >= 2

\* C4: one call of fetch_tweets issues at most 5 upstream requests.
C4_AtMostFiveRequests == fetch.requests <= 5

\* A call that ended after 5 requests, every response with a token and results.
C4_Witness ==
    /\ fetch.pc = "returned"
    /\ fetch.requests = 5 /\ fetch.page = 5
    /\ LastHadToken /\ LastResults /= << >>

\* C7: a further request is issued only if the most recent response carried
\* a continuation token and, when it was a continuation response, results:
\* after an initial response without a token the request count stays 1, and
\* after a continuation response without a token or without results it
\* stays what it is.
C7_RequestOnlyAfterToken ==
    [][ fetch'.requests /= fetch.requests =>
          /\ fetch'.requests = fetch.requests + 1
          /\ fetch.requests >= 1 =>
                /\ LastHadToken
                /\ fetch.requests >= 2 => LastResults /= << >>
      ]_vars

\* A call that ended after three requests, the third response without a token.
C7_Witness ==
    /\ fetch.pc = "returned"
    /\ fetch.requests = 3
    /\ ~fetch.response.raised /\ fetch.response.status_code = 200
    /\ "continuation_token" \notin DOMAIN fetch.response.json

\* C8: fetch_tweets returns only with at least one record; a call whose
\* initial request succeeded and that collected no record raises the
\* empty-result error.
C8_NeverReturnsEmpty ==
    /\ fetch.pc = "returned" => fetch.all_tweets_data /= << >>
    /\ (FetchEnded /\ fetch.page >= 1 /\ fetch.all_tweets_data = << >>)
          => (fetch.pc = "raised" /\ fetch.error = "No tweets found in the response")

\* A call that raised the empty-result error after an empty initial page and
\* a continuation request.
C8_Witness ==
    /\ fetch.pc = "raised"
    /\ fetch.error = "No tweets found in the response"
    /\ fetch.requests = 2

(***************************************************************************)
(* Properties of the HTTP handlers (Spec)                                  *)
(***************************************************************************)
\* The content the last completed save built.
LastSaved ==
    data_to_save(last_save[1].df, last_save[1].search_query, last_save[1].timestamp)

\* A save has completed, no other save ran while it did, and none has
\* started since.
SaveCompletedAlone ==
    /\ last_save /= << >>
    /\ ~last_save[1].overlapped
    /\ \A h \in Handlers : ~Saving(handlers[h])

\* Thread h takes a request in this step, and gives its answer in this step.
Takes(h) == handlers[h].pc = "idle" /\ handlers'[h].pc /= "idle"

Gives(h) == handlers[h].pc = "answer" /\ handlers'[h].pc = "idle"

\* C1: a GET /api/tweets that arrives after a completed save, no other save
\* during it or since, returns 200 with the content that save wrote, which
\* has one tweet per row of the saved table, each with allow-listed keys
\* only.
C1_GetLatestReturnsSaved ==
    [][ \A h \in Handlers :
          (Takes(h) /\ request'.route = "GET /api/tweets" /\ SaveCompletedAlone) =>
              /\ handlers'[h].pc = "answer"
              /\ handlers'[h].response.status = 200
              /\ handlers'[h].response.body = LastSaved
              /\ Len(handlers'[h].response.body.tweets) = Len(last_save[1].df)
              /\ \A i \in DOMAIN handlers'[h].response.body.tweets :
                    DOMAIN handlers'[h].response.body.tweets[i] \subseteq desired_columns
      ]_vars

\* C6: a POST /api/variable whose searchQuery is missing or empty is answered
\* 400; its handler calls neither fetch_tweets nor the save, and none of its
\* steps changes a file.
C6_EmptyQueryRejected ==
    [][ \A h \in Handlers :
          /\ (Takes(h) /\ posts' = posts + 1 /\ SearchQuery(request'.body) = EmptyString) =>
                /\ handlers'[h] = Return(Rejected)
                /\ Rejected.status = 400
                /\ fetch' = fetch
                /\ disk' = disk
          /\ (Gives(h) /\ handlers[h].response = Rejected) =>
                /\ http_response' = Rejected
                /\ fetch' = fetch
                /\ disk' = disk
      ]_vars

\* A request without a query has been answered 400 while files exist and
\* another handler is saving.
C6_Witness ==
    /\ http_response = Rejected
    /\ disk.data_latest_tweets /= NoFile
    /\ \E h \in Handlers : Saving(handlers[h])

\* C9: after a save that completed without another save running during it,
\* and until the next save starts, data/latest_tweets.json holds the content
\* that save built, which is also the content of the timestamped file it
\* returned, and its tweets are the rows of that save alone.
C9_LatestIsLastSave ==
    SaveCompletedAlone =>
        /\ disk.data_latest_tweets = File(json_dump(LastSaved))
        /\ last_save[1].filename \in DOMAIN disk.data_tweets
        /\ disk.data_tweets[last_save[1].filename] = disk.data_latest_tweets
        /\ IsJson(disk.data_latest_tweets[1])
        /\ Len(json_load(disk.data_latest_tweets[1]).tweets) = Len(last_save[1].df)

\* Two saves have completed one after the other, and the earlier
\* timestamped file differs from the latest file.
C9_Witness ==
    /\ SaveCompletedAlone
    /\ \E f \in DOMAIN disk.data_tweets :
          /\ f /= last_save[1].filename
          /\ IsJson(disk.data_tweets[f][1])
          /\ json_load(disk.data_tweets[f][1]).tweets
                /= json_load(disk.data_latest_tweets[1]).tweets

\* The initial upstream request of a handler is answered with a status other
\* than 200.
InitialFails(handler) ==
    /\ handler.pc = "fetch_tweets"
    /\ ~handler.upstream[1].raised
    /\ handler.upstream[1].status_code /= 200

\* C10: a POST /api/variable with a query whose initial upstream request is
\* answered with a status other than 200: fetch_tweets raises after that one
\* request, the handler returns 500 with an {error, message} body without
\* entering the save, that answer is given, and none of the handler's steps
\* changes a file or the save record.
C10_InitialFailureAborts ==
    [][ \A h \in Handlers :
          /\ (InitialFails(handlers'[h]) /\ handlers'[h] /= handlers[h])
                => (disk' = disk /\ last_save' = last_save)
          /\ (InitialFails(handlers[h]) /\ handlers'[h] /= handlers[h]) =>
                /\ fetch'.pc = "raised" /\ fetch'.error = "API request failed"
                /\ fetch'.requests = 1
                /\ handlers'[h] = Return(Failed("API request failed"))
                /\ Failed("API request failed").status = 500
                /\ DOMAIN Failed("API request failed").body = {"error", "message"}
                /\ disk' = disk
                /\ last_save' = last_save
          /\ (Gives(h) /\ handlers[h].response = Failed("API request failed")) =>
                /\ http_response' = Failed("API request failed")
                /\ disk' = disk
                /\ last_save' = last_save
      ]_vars

\* A query whose initial upstream request failed has been answered 500 while
\* files exist and another handler is saving.
C10_Witness ==
    /\ http_response = Failed("API request failed")
    /\ disk.data_tweets /= << >>
    /\ \E h \in Handlers : Saving(handlers[h])

(***************************************************************************)
(* Properties of calculate_language_stats (SpecLang)                       *)
(***************************************************************************)
RECURSIVE SumPercentages(_)
SumPercentages(languages) ==
    IF languages = {} THEN 0
    ELSE LET e == CHOOSE x \in languages : TRUE
         IN  e.percentage + SumPercentages(languages \ {e})

Abs(x) == IF x < 0 THEN -x ELSE x

\* The statistics of a non-empty table with an original_lang column have
\* been calculated.
StatsCalculated ==
    /\ lang_result /= << >>
    /\ lang_df /= << >>
    /\ "original_lang" \in Columns(lang_df)

\* C5 as stated: the percentages of a non-empty table sum to within 0.1 of
\* 100 (within 1 tenth of 1000 tenths).
C5_SumWithinOneTenth ==
    StatsCalculated => Abs(SumPercentages(lang_result[1].languages) - 1000) <= 1

\* C5 as amended: there is one entry per distinct original_lang value, and
\* the percentages sum to within 0.05 times the number of entries of 100.
C5_SumWithinHalfTenthPerLanguage ==
    StatsCalculated =>
        /\ Cardinality(lang_result[1].languages)
              = Cardinality({lang_df[i].original_lang : i \in DOMAIN lang_df})
        /\ 2 * Abs(SumPercentages(lang_result[1].languages) - 1000)
              <= Cardinality(lang_result[1].languages)

\* Six languages with one row each: the percentages sum to 100.2.
C5_Witness ==
    /\ StatsCalculated
    /\ Cardinality(lang_result[1].languages) = 6
    /\ SumPercentages(lang_result[1].languages) = 1002

====
